---- MODULE Spec2Model ----
(***************************************************************************)
(* Transfer reassembler of the high-overhead transports of pyuavcan:       *)
(* pyuavcan/transport/commons/high_overhead_transport/                     *)
(* _transfer_reassembler.py.                                               *)
(*                                                                         *)
(* A byte is a number in 0..255, a payload fragment (memoryview) is a      *)
(* sequence of bytes, a timestamp is its monotonic part in clock ticks.    *)
(* An Optional[int] that is None is modelled as -1, an Optional transfer   *)
(* as a sequence of length 0 (None) or 1.                                  *)
(***************************************************************************)
EXTENDS Integers, Sequences, FiniteSets

VARIABLES
    payloads,       \* self._payloads: fragments by frame index, <<>> where unseen
    max_index,      \* self._max_index: index of the EOT frame, None if unknown
    timestamp,      \* self._timestamp.monotonic
    transfer_id,    \* self._transfer_id
    pc,             \* "idle": between calls; "done": process_frame has just returned;
                    \* "anonymous": construct_anonymous_transfer has just returned;
                    \* "given", "finalized", "trimmed": see SpecFragments
    frame,          \* argument of the last process_frame call
    result,         \* its return value: <<>> (None) or <<transfer>>
    errors,         \* the errors it passed to on_error_callback, in order
    reported,       \* the four fields of the instance as each of these callbacks found them
    raised,         \* TRUE iff one of its assert statements failed
    held,           \* the fragments right after it stored the frame, <<>> if it did not
    prev,           \* reassembler state when that call was entered
    redelivered,    \* TRUE iff that call repeated the frame of the call before it
    now,            \* monotonic clock of the receiver: timestamp of the latest frame
    first_frame,    \* history: timestamp of the first frame stored into the held transfer
    emitted_at,     \* history: per transfer-ID, timestamp of the frame that completed it last
    pending,        \* sender side: indexes of the frames of that transfer not yet delivered
    wire,           \* sender side: the transfer under way
    outcome,        \* sender side: what the deliveries of its frames returned and reported
    argument,       \* fragment list given to _validate_and_finalize_transfer or _drop_crc
                    \* called on its own
    returned        \* what that call returned

vars == <<payloads, max_index, timestamp, transfer_id, pc, frame, result, errors, reported, raised,
          held, prev, redelivered, now, first_frame, emitted_at, pending, wire, outcome,
          argument, returned>>

-----------------------------------------------------------------------------
(* Bounds of the model. *)

MaxTransferId == 1
MaxIndex == 2
MaxTime == 2

(* Configuration of the instance under test. *)

source_node_id == 1234
max_payload_size_bytes == 2
transfer_id_timeout == 1
MaxFragments == 4

None == -1
NoError == "NO_ERROR"

MULTIFRAME_MISSING_FRAMES == "MULTIFRAME_MISSING_FRAMES"
MULTIFRAME_INTEGRITY_ERROR == "MULTIFRAME_INTEGRITY_ERROR"
MULTIFRAME_EMPTY_FRAME == "MULTIFRAME_EMPTY_FRAME"
MULTIFRAME_EOT_MISPLACED == "MULTIFRAME_EOT_MISPLACED"
MULTIFRAME_EOT_INCONSISTENT == "MULTIFRAME_EOT_INCONSISTENT"
PAYLOAD_SIZE_EXCEEDS_LIMIT == "PAYLOAD_SIZE_EXCEEDS_LIMIT"

-----------------------------------------------------------------------------
(* TransferCRC: CRC-32C (Castagnoli), reflected, register as the set of    *)
(* the positions of its one bits.                                          *)

CRC_SIZE_BYTES == 4

BitsOfByte(b) == {i \in 0..7 : (b \div (2 ^ i)) % 2 = 1}

ByteOfBits(r, k) ==
    LET bit(i) == IF (8 * k + i) \in r THEN 2 ^ i ELSE 0
    IN bit(0) + bit(1) + bit(2) + bit(3) + bit(4) + bit(5) + bit(6) + bit(7)

Xor(a, b) == (a \ b) \cup (b \ a)

ShiftRight(r) == {i - 1 : i \in r \ {0}}

\* 0x82F63B78
CrcPolynomial == {3, 4, 5, 6, 8, 9, 11, 12, 13, 17, 18, 20, 21, 22, 23, 25, 31}

\* 0xB798B438
CrcResidue == {3, 4, 5, 10, 12, 13, 15, 19, 20, 23, 24, 25, 26, 28, 29, 31}

CrcInitial == 0..31

RECURSIVE CrcShift(_, _)
CrcShift(r, n) ==
    IF n = 0 THEN r
    ELSE CrcShift(IF 0 \in r THEN Xor(ShiftRight(r), CrcPolynomial) ELSE ShiftRight(r), n - 1)

\* the table of the byte-wise algorithm: entry b is b shifted out bit by bit
CrcTable == [b \in 0..255 |-> CrcShift(BitsOfByte(b), 8)]

ShiftRight8(r) == {i - 8 : i \in r \ (0..7)}

\* val = (val >> 8) ^ TABLE[x ^ (val & 0xFF)]
RECURSIVE CrcAdd(_, _)
CrcAdd(r, data) ==
    IF data = <<>> THEN r
    ELSE CrcAdd(Xor(ShiftRight8(r),
                    CrcTable[ByteOfBits(Xor(r \cap (0..7), BitsOfByte(Head(data))), 0)]),
                Tail(data))

RECURSIVE Concat(_)
Concat(fragments) ==
    IF fragments = <<>> THEN <<>> ELSE Head(fragments) \o Concat(Tail(fragments))

\* TransferCRC.new(*fragments).value_as_bytes
value_as_bytes(data) ==
    LET v == CrcInitial \ CrcAdd(CrcInitial, data)
    IN <<ByteOfBits(v, 0), ByteOfBits(v, 1), ByteOfBits(v, 2), ByteOfBits(v, 3)>>

\* TransferCRC.new(*fragments).check_residue()
check_residue(fragments) == CrcAdd(CrcInitial, Concat(fragments)) = CrcResidue

-----------------------------------------------------------------------------
(* Helpers of the reassembler. *)

RECURSIVE SumLen(_)
SumLen(fragments) ==
    IF fragments = <<>> THEN 0 ELSE Len(Head(fragments)) + SumLen(Tail(fragments))

all(fragments) == \A i \in 1..Len(fragments) : fragments[i] # <<>>

Max(a, b) == IF a > b THEN a ELSE b

\* _drop_crc: the while loop, on a list it pops from and shortens at the tail
RECURSIVE drop_crc_loop(_, _)
drop_crc_loop(fragments, remaining) ==
    IF fragments # <<>> /\ remaining > 0
    THEN LET n == Len(fragments)
             last == fragments[n]
         IN IF Len(last) <= remaining
            THEN drop_crc_loop(SubSeq(fragments, 1, n - 1), remaining - Len(last))
            ELSE drop_crc_loop([fragments EXCEPT ![n] = SubSeq(last, 1, Len(last) - remaining)], 0)
    ELSE fragments

\* a slip in _drop_crc: one byte of the CRC is left in place
drop_crc_one_byte_short(fragments) == drop_crc_loop(fragments, CRC_SIZE_BYTES - 1)

\* a slip in _drop_crc: the empty fragments are all left out
drop_crc_without_empty(fragments) ==
    LET NonEmpty(fragment) == fragment # <<>>
    IN drop_crc_loop(SelectSeq(fragments, NonEmpty), CRC_SIZE_BYTES)

drop_crc(fragments) == drop_crc_loop(fragments, CRC_SIZE_BYTES)

\* a slip in package: the priority is left at a default
package_priority_defaulted(timestamp_, priority, transfer_id_, fragmented_payload, source_node_id_) ==
    [timestamp |-> timestamp_,
     priority |-> "SLOW",
     transfer_id |-> transfer_id_,
     fragmented_payload |-> fragmented_payload,
     source_node_id |-> source_node_id_]

package(timestamp_, priority, transfer_id_, fragmented_payload, source_node_id_) ==
    [timestamp |-> timestamp_,
     priority |-> priority,
     transfer_id |-> transfer_id_,
     fragmented_payload |-> fragmented_payload,
     source_node_id |-> source_node_id_]

\* a slip in _validate_and_finalize_transfer: a total of CRC_SIZE bytes passes the size test
validate_and_finalize_transfer_size_ge(timestamp_, priority, transfer_id_, frame_payloads, source_node_id_) ==
    IF Len(frame_payloads) > 1
    THEN LET size_ok == SumLen(frame_payloads) >= CRC_SIZE_BYTES
             crc_ok == check_residue(frame_payloads)
         IN IF size_ok /\ crc_ok
            THEN <<package(timestamp_, priority, transfer_id_, drop_crc(frame_payloads), source_node_id_)>>
            ELSE <<>>
    ELSE <<package(timestamp_, priority, transfer_id_, frame_payloads, source_node_id_)>>

\* _validate_and_finalize_transfer: <<>> is None
validate_and_finalize_transfer(timestamp_, priority, transfer_id_, frame_payloads, source_node_id_) ==
    IF Len(frame_payloads) > 1
    THEN LET size_ok == SumLen(frame_payloads) > CRC_SIZE_BYTES
             crc_ok == check_residue(frame_payloads)
         IN IF size_ok /\ crc_ok
            THEN <<package(timestamp_, priority, transfer_id_, drop_crc(frame_payloads), source_node_id_)>>
            ELSE <<>>
    ELSE <<package(timestamp_, priority, transfer_id_, frame_payloads, source_node_id_)>>

\* a slip in _pure_payload_size_bytes: the CRC is taken off a single fragment too
pure_payload_size_bytes_always_less_crc(payloads_) == SumLen(payloads_) - CRC_SIZE_BYTES

\* a slip in _pure_payload_size_bytes: a CRC is taken off for every fragment after the first
pure_payload_size_bytes_less_crc_each(payloads_) ==
    SumLen(payloads_) - CRC_SIZE_BYTES * Max(Len(payloads_) - 1, 0)

\* TransferReassembler._pure_payload_size_bytes
pure_payload_size_bytes(payloads_) ==
    IF Len(payloads_) > 1 THEN SumLen(payloads_) - CRC_SIZE_BYTES ELSE SumLen(payloads_)

-----------------------------------------------------------------------------
(* process_frame.  The record s is the instance while the call runs: its   *)
(* four fields, the errors reported so far, the fragments as they were     *)
(* right after the frame's payload was stored, and whether that payload    *)
(* was the first one of its transfer.                                      *)

\* the four fields of the instance as a callback entered now finds them
Fields(s) ==
    [payloads |-> s.payloads, max_index |-> s.max_index,
     timestamp |-> s.timestamp, transfer_id |-> s.transfer_id]

\* self._on_error_callback(error)
on_error_callback(s, error) ==
    [s EXCEPT !.errors = Append(@, error), !.reported = Append(@, Fields(s))]

\* a slip in _restart: the state is reset first, the error reported afterwards
restart_resets_first(s, timestamp_, transfer_id_, error) ==
    LET reset == [s EXCEPT !.timestamp = timestamp_,
                           !.transfer_id = transfer_id_,
                           !.max_index = None,
                           !.payloads = <<>>]
    IN IF error = NoError THEN reset ELSE on_error_callback(reset, error)

\* a slip in _restart: max_index is not unset
restart_keeps_max_index(s, timestamp_, transfer_id_, error) ==
    [(IF error = NoError THEN s ELSE on_error_callback(s, error))
        EXCEPT !.timestamp = timestamp_,
               !.transfer_id = transfer_id_,
               !.payloads = <<>>]

\* TransferReassembler._restart
restart(s, timestamp_, transfer_id_, error) ==
    [(IF error = NoError THEN s ELSE on_error_callback(s, error))
        EXCEPT !.timestamp = timestamp_,
               !.transfer_id = transfer_id_,
               !.max_index = None,
               !.payloads = <<>>]

Returns(s, value) ==
    [payloads |-> s.payloads, max_index |-> s.max_index, timestamp |-> s.timestamp,
     transfer_id |-> s.transfer_id, errors |-> s.errors, reported |-> s.reported, held |-> s.held,
     first |-> s.first, result |-> value, raised |-> FALSE]

Raises(s) == [Returns(s, <<>>) EXCEPT !.raised = TRUE]

\* a slip in the finalization: the restart keeps the transfer-ID just completed
finalize_keeps_transfer_id(s, frame_) ==
    LET res == validate_and_finalize_transfer(s.timestamp, frame_.priority,
                   frame_.transfer_id, s.payloads, source_node_id)
    IN Returns(restart(s, frame_.timestamp, frame_.transfer_id,
                       IF res = <<>> THEN MULTIFRAME_INTEGRITY_ERROR ELSE NoError),
               res)

\* a slip in the finalization: the state is reset only if a transfer came out
finalize_resets_on_success(s, frame_) ==
    LET res == validate_and_finalize_transfer(s.timestamp, frame_.priority,
                   frame_.transfer_id, s.payloads, source_node_id)
    IN IF res = <<>>
       THEN Returns(on_error_callback(s, MULTIFRAME_INTEGRITY_ERROR), <<>>)
       ELSE Returns(restart(s, frame_.timestamp, frame_.transfer_id + 1, NoError), res)

\* FINALIZE THE TRANSFER
finalize(s, frame_) ==
    IF s.payloads = <<>>
    THEN Raises(s)
    ELSE LET res == validate_and_finalize_transfer(s.timestamp, frame_.priority,
                        frame_.transfer_id, s.payloads, source_node_id)
         IN Returns(restart(s, frame_.timestamp, frame_.transfer_id + 1,
                           IF res = <<>> THEN MULTIFRAME_INTEGRITY_ERROR ELSE NoError),
                   res)

\* a slip in the completion test: an empty fragment always means incomplete
is_incomplete_while_any_empty(s) == s.max_index = None \/ ~all(s.payloads)

\* CHECK IF ALL FRAMES ARE RECEIVED
is_incomplete(s) == s.max_index = None \/ (s.max_index > 0 /\ ~all(s.payloads))

check_all_received(s, frame_) ==
    IF is_incomplete(s)
    THEN Returns(s, <<>>)
    ELSE IF s.max_index = None
              \/ s.max_index # Len(s.payloads) - 1
              \/ (s.max_index > 0 /\ ~all(s.payloads))
         THEN Raises(s)
         ELSE finalize(s, frame_)

\* ENFORCE PAYLOAD SIZE LIMIT
exceeds_limit(s) == pure_payload_size_bytes(s.payloads) > max_payload_size_bytes

\* a slip in the size-limit abort: the restart stays on the frame's transfer-ID
enforce_size_limit_same_transfer_id(s, frame_) ==
    IF exceeds_limit(s)
    THEN Returns(restart(s, frame_.timestamp, frame_.transfer_id, PAYLOAD_SIZE_EXCEEDS_LIMIT), <<>>)
    ELSE check_all_received(s, frame_)

enforce_size_limit(s, frame_) ==
    IF exceeds_limit(s)
    THEN Returns(restart(s, frame_.timestamp, frame_.transfer_id + 1, PAYLOAD_SIZE_EXCEEDS_LIMIT), <<>>)
    ELSE check_all_received(s, frame_)

\* ACCEPT THE PAYLOAD
store(payloads_, index, payload) ==
    [i \in 1..Max(Len(payloads_), index + 1) |->
        IF i = index + 1 THEN payload
        ELSE IF i <= Len(payloads_) THEN payloads_[i] ELSE <<>>]

accept_payload(s, frame_) ==
    LET stored == store(s.payloads, frame_.index, frame_.payload)
    IN enforce_size_limit([s EXCEPT !.payloads = stored,
                                    !.held = stored,
                                    !.first = (s.payloads = <<>>)],
                          frame_)

\* a slip in the past-the-end check: it never fires
past_end_never(s, frame_) == FALSE

\* a slip in the past-the-end check: the fragments already stored are not looked at
past_end_of_frame_only(s, frame_) ==
    s.max_index # None /\ frame_.index > s.max_index

\* a slip in the past-the-end check: one index too many is let through
past_end_off_by_one(s, frame_) ==
    s.max_index # None /\ Max(frame_.index, Len(s.payloads) - 1) > s.max_index + 1

\* DETECT UNEXPECTED FRAMES PAST THE END OF TRANSFER
past_end(s, frame_) ==
    s.max_index # None /\ Max(frame_.index, Len(s.payloads) - 1) > s.max_index

detect_past_end(s, frame_) ==
    IF past_end(s, frame_)
    THEN Returns(restart(s, frame_.timestamp, frame_.transfer_id + 1, MULTIFRAME_EOT_MISPLACED), <<>>)
    ELSE accept_payload(s, frame_)

\* a slip in the max-index step: the index is latched before it is compared
determine_max_index_latches_first(s, frame_) ==
    IF frame_.end_of_transfer
    THEN detect_past_end([s EXCEPT !.max_index = frame_.index], frame_)
    ELSE detect_past_end(s, frame_)

\* DETERMINE MAX FRAME INDEX FOR THIS TRANSFER
eot_inconsistent(s, frame_) == s.max_index # None /\ s.max_index # frame_.index

determine_max_index(s, frame_) ==
    IF frame_.end_of_transfer
    THEN IF eot_inconsistent(s, frame_)
         THEN Returns(restart(s, frame_.timestamp, frame_.transfer_id + 1, MULTIFRAME_EOT_INCONSISTENT), <<>>)
         ELSE IF ~(s.max_index = None \/ s.max_index = frame_.index)
              THEN Raises(s)
              ELSE detect_past_end([s EXCEPT !.max_index = frame_.index], frame_)
    ELSE detect_past_end(s, frame_)

\* a slip in the drop of non-matching frames: the test is left out
drop_non_matching_left_out(s, frame_) == determine_max_index(s, frame_)

\* DROP FRAMES FROM NON-MATCHING TRANSFERS
is_stale(s, frame_) == frame_.transfer_id < s.transfer_id

drop_non_matching(s, frame_) ==
    IF is_stale(s, frame_)
    THEN Returns(s, <<>>)
    ELSE IF frame_.transfer_id # s.transfer_id
         THEN Raises(s)
         ELSE determine_max_index(s, frame_)

\* slips in the new-transfer test: >= or != where > is meant
\* a slip in the new-transfer test: the transfer-ID timeout is left out
is_new_transfer_newer_only(s, frame_) ==
    frame_.transfer_id > s.transfer_id

is_new_transfer_ge(s, frame_) ==
    \/ frame_.transfer_id >= s.transfer_id
    \/ frame_.timestamp - s.timestamp > transfer_id_timeout

is_new_transfer_ne(s, frame_) ==
    \/ frame_.transfer_id # s.transfer_id
    \/ frame_.timestamp - s.timestamp > transfer_id_timeout

\* a slip in the new-transfer restart: missing frames are reported even if none were held
detect_new_transfer_always_reports(s, frame_) ==
    IF \/ frame_.transfer_id > s.transfer_id
       \/ frame_.timestamp - s.timestamp > transfer_id_timeout
    THEN restart(s, frame_.timestamp, frame_.transfer_id, MULTIFRAME_MISSING_FRAMES)
    ELSE s

\* DETECT NEW TRANSFERS
is_new_transfer(s, frame_) ==
    \/ frame_.transfer_id > s.transfer_id
    \/ frame_.timestamp - s.timestamp > transfer_id_timeout

detect_new_transfer(s, frame_) ==
    IF is_new_transfer(s, frame_)
    THEN restart(s, frame_.timestamp, frame_.transfer_id,
                 IF s.payloads # <<>> THEN MULTIFRAME_MISSING_FRAMES ELSE NoError)
    ELSE s

\* DROP MALFORMED FRAMES
is_malformed(frame_) ==
    ~(frame_.index = 0 /\ frame_.end_of_transfer) /\ frame_.payload = <<>>

\* a slip in process_frame: new transfers are detected before empty frames are dropped
process_frame_detects_first(self, frame_) ==
    LET s == detect_new_transfer(
                 [payloads |-> self.payloads, max_index |-> self.max_index,
                  timestamp |-> self.timestamp, transfer_id |-> self.transfer_id,
                  errors |-> <<>>, reported |-> <<>>, held |-> <<>>, first |-> FALSE],
                 frame_)
    IN IF is_malformed(frame_)
       THEN Returns(on_error_callback(s, MULTIFRAME_EMPTY_FRAME), <<>>)
       ELSE drop_non_matching(s, frame_)

\* TransferReassembler.process_frame
process_frame(self, frame_) ==
    LET s == [payloads |-> self.payloads, max_index |-> self.max_index,
              timestamp |-> self.timestamp, transfer_id |-> self.transfer_id,
              errors |-> <<>>, reported |-> <<>>, held |-> <<>>, first |-> FALSE]
    IN IF is_malformed(frame_)
       THEN Returns(on_error_callback(s, MULTIFRAME_EMPTY_FRAME), <<>>)
       ELSE drop_non_matching(detect_new_transfer(s, frame_), frame_)

\* Frame.single_frame_transfer
single_frame_transfer(frame_) == frame_.index = 0 /\ frame_.end_of_transfer

\* a slip in construct_anonymous_transfer: the source node-ID of the instance
construct_anonymous_transfer_with_source(frame_) ==
    IF single_frame_transfer(frame_)
    THEN <<package(frame_.timestamp, frame_.priority, frame_.transfer_id,
                   <<frame_.payload>>, source_node_id)>>
    ELSE <<>>

\* TransferReassembler.construct_anonymous_transfer: <<>> is None
construct_anonymous_transfer(frame_) ==
    IF single_frame_transfer(frame_)
    THEN <<[timestamp |-> frame_.timestamp,
            priority |-> frame_.priority,
            transfer_id |-> frame_.transfer_id,
            fragmented_payload |-> <<frame_.payload>>,
            source_node_id |-> None]>>
    ELSE <<>>

-----------------------------------------------------------------------------
(* The receiver: process_frame is called with one frame after another.     *)
(* Frames reach it in the order of their reception timestamps, and a frame *)
(* may be delivered again (redundant interfaces).                          *)

Self == [payloads |-> payloads, max_index |-> max_index,
         timestamp |-> timestamp, transfer_id |-> transfer_id]

NoFrame == [timestamp |-> 0, priority |-> "SLOW", transfer_id |-> 0, index |-> 0,
            end_of_transfer |-> FALSE, payload |-> <<>>]

NoWire == [payload |-> <<>>, frames |-> <<>>, fresh |-> FALSE, late |-> FALSE,
           aborted |-> None, entered |-> None, stamp |-> None]

NoOutcome == [returned |-> <<>>, errors |-> <<>>, in_order |-> TRUE]

PayloadA == <<1>>

FramePayloads == {<<>>, PayloadA, value_as_bytes(PayloadA)}

Frames(earliest) ==
    [timestamp : earliest..MaxTime,
     priority : {"SLOW"},
     transfer_id : 0..MaxTransferId,
     index : 0..MaxIndex,
     end_of_transfer : BOOLEAN,
     payload : FramePayloads]

\* one call of process_frame and what it leaves behind
Process(frame_) ==
    \E out \in {process_frame(Self, frame_)} :
       /\ payloads' = out.payloads
       /\ max_index' = out.max_index
       /\ timestamp' = out.timestamp
       /\ transfer_id' = out.transfer_id
       /\ result' = out.result
       /\ errors' = out.errors
       /\ reported' = out.reported
       /\ raised' = out.raised
       /\ held' = out.held
       /\ prev' = Self
       /\ frame' = frame_
       /\ now' = frame_.timestamp
       /\ pc' = "done"

\* the caller takes the returned value
Taken ==
    /\ pc' = "idle"
    /\ frame' = NoFrame
    /\ result' = <<>>
    /\ errors' = <<>>
    /\ reported' = <<>>
    /\ raised' = FALSE
    /\ held' = <<>>
    /\ prev' = Self
    /\ redelivered' = FALSE
    /\ UNCHANGED <<payloads, max_index, timestamp, transfer_id, now>>

Init ==
    /\ payloads = <<>>
    /\ max_index = None
    /\ timestamp = 0
    /\ transfer_id = 0
    /\ pc = "idle"
    /\ frame = NoFrame
    /\ result = <<>>
    /\ errors = <<>>
    /\ reported = <<>>
    /\ raised = FALSE
    /\ held = <<>>
    /\ prev = Self
    /\ redelivered = FALSE
    /\ now = 0
    /\ first_frame = None
    /\ emitted_at = [t \in 0..MaxTransferId |-> None]
    /\ pending = {}
    /\ wire = NoWire
    /\ outcome = NoOutcome
    /\ argument = <<>>
    /\ returned = <<>>

Call ==
    /\ pc = "idle"
    /\ \E f \in Frames(now) : Process(f)
    /\ redelivered' = FALSE
    /\ UNCHANGED <<first_frame, emitted_at, pending, wire, outcome, argument, returned>>

Redeliver ==
    /\ pc = "done"
    /\ Process(frame)
    /\ redelivered' = TRUE
    /\ UNCHANGED <<first_frame, emitted_at, pending, wire, outcome, argument, returned>>

Return ==
    /\ pc = "done"
    /\ Taken
    /\ UNCHANGED <<first_frame, emitted_at, pending, wire, outcome, argument, returned>>

Next == Call \/ Redeliver \/ Return

Spec == Init /\ [][Next]_vars

-----------------------------------------------------------------------------
(* The same receiver with the history of the transfers: which frame was    *)
(* the first one stored into the transfer being held, and which            *)
(* transfer-IDs were completed no longer than the timeout ago.             *)

Completed(clock) ==
    [t \in 0..MaxTransferId |->
        LET at == IF result # <<>> /\ result[1].transfer_id = t
                  THEN frame.timestamp ELSE emitted_at[t]
        IN IF at # None /\ clock - at <= transfer_id_timeout THEN at ELSE None]

Arrive ==
    /\ pc = "idle"
    /\ \E f \in Frames(now) :
          /\ Process(f)
          /\ \E out \in {process_frame(Self, f)} :
                first_frame' = IF out.payloads = <<>> /\ out.result = <<>> THEN None
                               ELSE IF out.held # <<>> /\ out.first THEN f.timestamp
                               ELSE first_frame
          /\ emitted_at' = Completed(f.timestamp)
    /\ redelivered' = FALSE
    /\ UNCHANGED <<pending, wire, outcome, argument, returned>>

Deliver ==
    /\ pc = "done"
    /\ Taken
    /\ first_frame' = IF payloads = <<>> THEN None ELSE first_frame
    /\ emitted_at' = Completed(now)
    /\ UNCHANGED <<pending, wire, outcome, argument, returned>>

NextHistory == Arrive \/ Deliver

SpecHistory == Init /\ [][NextHistory]_vars

-----------------------------------------------------------------------------
(* The receiver fed by a sender: after a first call with a frame of any   *)
(* kind, or right away, the frames of one transfer are delivered, each     *)
(* once, in any order.  The transfer is a payload followed by its CRC, cut *)
(* into consecutive non-empty parts, one per frame; all its frames carry   *)
(* one timestamp, one priority and one transfer-ID that is not below the   *)
(* current one unless the timestamp is past the transfer-ID timeout.       *)

PayloadB == <<1, 2>>

SenderPayloads == {<<>>, PayloadA, PayloadB}

\* what the sender puts on the wire: the payload, then its CRC
WireData == [payload \in SenderPayloads |-> payload \o value_as_bytes(payload)]

\* the cuts of data into n parts, none of them empty: the positions after which
\* parts 1..n-1 end
Cuts(data, n) ==
    {c \in [1..(n - 1) -> 1..(Len(data) - 1)] : \A i \in 1..(n - 2) : c[i] < c[i + 1]}

Part(data, c, i) ==
    LET n == Len(c) + 1
        from == IF i = 1 THEN 0 ELSE c[i - 1]
        to == IF i = n THEN Len(data) ELSE c[i]
    IN SubSeq(data, from + 1, to)

WireFrames(payload, c, transfer_id_, timestamp_) ==
    LET data == WireData[payload]
        n == Len(c) + 1
    IN [i \in 1..n |->
           [timestamp |-> timestamp_, priority |-> "SLOW", transfer_id |-> transfer_id_,
            index |-> i - 1, end_of_transfer |-> (i = n), payload |-> Part(data, c, i)]]

AbortErrors ==
    {MULTIFRAME_EOT_INCONSISTENT, MULTIFRAME_EOT_MISPLACED,
     PAYLOAD_SIZE_EXCEEDS_LIMIT, MULTIFRAME_INTEGRITY_ERROR}

\* the transfer-ID of the frame on which the call just made aborted a transfer
JustAborted ==
    IF errors # <<>> /\ errors[Len(errors)] \in AbortErrors THEN frame.transfer_id ELSE None

Earlier ==
    /\ wire = NoWire
    /\ pc = "idle"
    /\ \E f \in Frames(now) : Process(f)
    /\ redelivered' = FALSE
    /\ UNCHANGED <<first_frame, emitted_at, pending, wire, outcome, argument, returned>>

\* the sender puts the frames of a transfer of payload on the wire
Transmit(payload, frames) ==
    LET tid == frames[1].transfer_id
        ts == frames[1].timestamp
    IN /\ tid >= transfer_id \/ ts - timestamp > transfer_id_timeout
       /\ wire' = [payload |-> payload,
                   frames |-> frames,
                   fresh |-> \/ tid > transfer_id
                             \/ payloads = <<>>
                             \/ ts - timestamp > transfer_id_timeout,
                   late |-> ts - timestamp > transfer_id_timeout,
                   aborted |-> JustAborted,
                   entered |-> transfer_id,
                   stamp |-> IF tid > transfer_id \/ ts - timestamp > transfer_id_timeout
                             THEN ts ELSE timestamp]
       /\ pending' = 1..Len(frames)
       /\ outcome' = NoOutcome
       /\ UNCHANGED <<payloads, max_index, timestamp, transfer_id, pc, frame, result, errors,
                      reported, raised, held, prev, redelivered, now, first_frame, emitted_at,
                      argument, returned>>

Send ==
    /\ wire = NoWire
    /\ \E payload \in SenderPayloads, n \in 1..(MaxIndex + 1),
          tid \in 0..MaxTransferId, ts \in now..MaxTime :
          \E c \in Cuts(WireData[payload], n) :
             Transmit(payload, WireFrames(payload, c, tid, ts))

DeliverFrame ==
    /\ wire # NoWire
    /\ \E i \in pending :
          /\ Process(wire.frames[i])
          /\ pending' = pending \ {i}
          /\ outcome' = [returned |-> outcome.returned \o result',
                         errors |-> outcome.errors \o errors',
                         in_order |-> outcome.in_order /\ (\A j \in pending : i <= j)]
    /\ redelivered' = FALSE
    /\ UNCHANGED <<first_frame, emitted_at, wire, argument, returned>>

NextSender == Earlier \/ Send \/ DeliverFrame

SpecSender == Init /\ [][NextSender]_vars

-----------------------------------------------------------------------------
(* The receiver fed, from its initial state, by a sender whose frames      *)
(* carry each a priority of its own.                                       *)

Priorities == {"SLOW", "FAST"}

SendMixed ==
    /\ wire = NoWire
    /\ \E payload \in SenderPayloads, n \in 1..(MaxIndex + 1),
          tid \in 0..MaxTransferId, ts \in now..MaxTime :
          \E c \in Cuts(WireData[payload], n), priority \in [1..n -> Priorities] :
             Transmit(payload,
                      [i \in 1..n |-> [WireFrames(payload, c, tid, ts)[i]
                                          EXCEPT !.priority = priority[i]]])

NextPriority == SendMixed \/ DeliverFrame

SpecPriority == Init /\ [][NextPriority]_vars

-----------------------------------------------------------------------------
(* The receiver whose owner also calls construct_anonymous_transfer, with  *)
(* frames of any kind, between the calls of process_frame.                 *)

AnonymousFrames == {[f EXCEPT !.priority = p] : f \in Frames(0), p \in Priorities}

ConstructAnonymous ==
    /\ pc = "idle"
    /\ \E f \in AnonymousFrames :
          /\ result' = construct_anonymous_transfer(f)
          /\ frame' = f
    /\ pc' = "anonymous"
    /\ prev' = Self
    /\ UNCHANGED <<payloads, max_index, timestamp, transfer_id, errors, reported, raised,
                   held, redelivered, now, first_frame, emitted_at, pending, wire, outcome, argument, returned>>

ReturnAnonymous ==
    /\ pc = "anonymous"
    /\ Taken
    /\ UNCHANGED <<first_frame, emitted_at, pending, wire, outcome, argument, returned>>

NextAnonymous == Call \/ Return \/ ConstructAnonymous \/ ReturnAnonymous

SpecAnonymous == Init /\ [][NextAnonymous]_vars

-----------------------------------------------------------------------------
(* _validate_and_finalize_transfer and _drop_crc called on their own, as   *)
(* the unit tests call them, on a list of fragments: a byte string cut     *)
(* into at most MaxFragments parts, empty ones among them.  The byte       *)
(* strings are the prefixes of a payload followed by the CRC of a payload, *)
(* its own or another one's.                                               *)

FragmentData ==
    UNION {{SubSeq(data, 1, k) : k \in 0..Len(data)} :
              data \in {p \o value_as_bytes(q) : p \in SenderPayloads, q \in SenderPayloads}}

\* the cuts of data into n parts, empty or not: the positions after which parts
\* 1..n-1 end
Splits(data, n) ==
    {c \in [1..(n - 1) -> 0..Len(data)] : \A i \in 1..(n - 2) : c[i] <= c[i + 1]}

FragmentLists ==
    {<<>>} \cup
    UNION {{[i \in 1..n |-> Part(data, c, i)] : c \in Splits(data, n)} :
              data \in FragmentData, n \in 1..MaxFragments}

InitFragments ==
    /\ payloads = <<>>
    /\ max_index = None
    /\ timestamp = 0
    /\ transfer_id = 0
    /\ pc = "given"
    /\ frame = NoFrame
    /\ result = <<>>
    /\ errors = <<>>
    /\ reported = <<>>
    /\ raised = FALSE
    /\ held = <<>>
    /\ prev = Self
    /\ redelivered = FALSE
    /\ now = 0
    /\ first_frame = None
    /\ emitted_at = [t \in 0..MaxTransferId |-> None]
    /\ pending = {}
    /\ wire = NoWire
    /\ outcome = NoOutcome
    /\ argument \in FragmentLists
    /\ returned = <<>>

\* a call of _validate_and_finalize_transfer; its frame_payloads are not empty
\* (assert at line 231)
ValidateAndFinalize ==
    /\ pc = "given"
    /\ argument # <<>>
    /\ \E ts \in 0..MaxTime, priority \in Priorities, tid \in 0..MaxTransferId :
          /\ returned' = validate_and_finalize_transfer(ts, priority, tid, argument,
                                                        source_node_id)
          /\ frame' = [NoFrame EXCEPT !.timestamp = ts, !.priority = priority,
                                      !.transfer_id = tid]
    /\ pc' = "finalized"
    /\ UNCHANGED <<payloads, max_index, timestamp, transfer_id, result, errors, reported,
                   raised, held, prev, redelivered, now, first_frame, emitted_at, pending,
                   wire, outcome, argument>>

\* a call of _drop_crc
DropCrc ==
    /\ pc = "given"
    /\ returned' = drop_crc(argument)
    /\ pc' = "trimmed"
    /\ UNCHANGED <<payloads, max_index, timestamp, transfer_id, frame, result, errors,
                   reported, raised, held, prev, redelivered, now, first_frame, emitted_at,
                   pending, wire, outcome, argument>>

NextFragments == ValidateAndFinalize \/ DropCrc

SpecFragments == InitFragments /\ [][NextFragments]_vars

-----------------------------------------------------------------------------
(* Properties.  A state with pc = "done" shows one call of process_frame:  *)
(* prev is the instance before it, frame its argument, result and errors   *)
(* what it returned and reported, and the four fields the instance after.  *)

CountOf(seq, e) == Cardinality({i \in 1..Len(seq) : seq[i] = e})

WithinTimeout == frame.timestamp - prev.timestamp <= transfer_id_timeout

\* C1: every transfer process_frame returns carries the timestamp of the first
\* frame that was stored into that transfer.
C1_TimestampOfFirstFrame ==
    (pc = "done" /\ result # <<>>) => result[1].timestamp = first_frame

\* C3 as claimed: a frame whose transfer-ID is below the current one never makes
\* process_frame report an error or return a transfer, whatever else it carries.
C3_StaleDropSilence_AsClaimed ==
    (pc = "done" /\ frame.transfer_id < prev.transfer_id)
        => (errors = <<>> /\ result = <<>>)

\* C3 amended: a frame whose transfer-ID is below the current one, that is not
\* an empty frame of a multi-frame transfer and whose timestamp is not more than
\* the timeout past the stored one, makes process_frame report no error and
\* return nothing.
C3_StaleDropSilence ==
    (pc = "done" /\ frame.transfer_id < prev.transfer_id
        /\ ~is_malformed(frame) /\ WithinTimeout)
        => (errors = <<>> /\ result = <<>>)

C3_Witness ==
    /\ pc = "done"
    /\ frame.transfer_id < prev.transfer_id
    /\ frame.index = 0 /\ frame.end_of_transfer /\ frame.payload # <<>>
    /\ WithinTimeout
    /\ prev.payloads # <<>>
    /\ payloads = prev.payloads

\* C4: no returned transfer is longer than max_payload_size_bytes, and a call
\* that stores a frame making the pure payload size exceed max_payload_size_bytes
\* reports PAYLOAD_SIZE_EXCEEDS_LIMIT exactly once, returns nothing and aborts
\* the transfer.
C4_SizeCeiling ==
    pc = "done" =>
        /\ result # <<>> => SumLen(result[1].fragmented_payload) <= max_payload_size_bytes
        /\ pure_payload_size_bytes(held) > max_payload_size_bytes
              => /\ CountOf(errors, PAYLOAD_SIZE_EXCEEDS_LIMIT) = 1
                 /\ result = <<>>
                 /\ payloads = <<>>
                 /\ max_index = None
                 /\ transfer_id = frame.transfer_id + 1

C4_Witness ==
    /\ pc = "done"
    /\ Len(held) > 1
    /\ pure_payload_size_bytes(held) > max_payload_size_bytes
    /\ errors = <<PAYLOAD_SIZE_EXCEEDS_LIMIT>>

\* C6 as claimed: delivering a frame of the transfer being accepted a second
\* time in a row leaves the instance as the first delivery left it, returns
\* nothing and reports no error.
C6_DuplicateIdempotence_AsClaimed ==
    (pc = "done" /\ redelivered /\ frame.transfer_id = prev.transfer_id)
        => (Self = prev /\ result = <<>> /\ errors = <<>>)

\* C6 amended: delivering a second time in a row any frame that is not an empty
\* frame of a multi-frame transfer leaves the instance as the first delivery
\* left it, returns nothing and reports no error.
C6_DuplicateIdempotence ==
    (pc = "done" /\ redelivered /\ ~is_malformed(frame))
        => (Self = prev /\ result = <<>> /\ errors = <<>>)

C6_Witness ==
    /\ pc = "done"
    /\ redelivered
    /\ frame.transfer_id = prev.transfer_id
    /\ held # <<>>
    /\ Len(payloads) > 1
    /\ max_index # None

\* C8: no assert statement of process_frame or of the finalizer fails.
C8_NeverRaises == raised = FALSE

C8_Witness ==
    /\ pc = "done"
    /\ result # <<>>
    /\ Len(held) > 1
    /\ ~raised

\* C9 as claimed: the current transfer-ID after a call is not below its value
\* before the call.
C9_TransferIdNonDecreasing_AsClaimed ==
    pc = "done" => transfer_id >= prev.transfer_id

\* C9 amended: the current transfer-ID after a call is not below its value
\* before the call, unless the frame is not an empty frame of a multi-frame
\* transfer and its timestamp is more than the timeout past the stored one:
\* then it is the frame's transfer-ID, or that plus one when the call ended
\* the transfer.
C9_TransferIdNonDecreasing ==
    pc = "done" =>
        \/ transfer_id >= prev.transfer_id
        \/ /\ ~is_malformed(frame)
           /\ ~WithinTimeout
           /\ transfer_id \in {frame.transfer_id, frame.transfer_id + 1}

C9_Witness ==
    /\ pc = "done"
    /\ transfer_id < prev.transfer_id
    /\ transfer_id = frame.transfer_id
    /\ payloads # <<>>

\* the transfer-IDs not below the frame's that were completed no longer than the
\* timeout before the frame
CompletedNotBelow ==
    {t \in frame.transfer_id..MaxTransferId :
        emitted_at[t] # None /\ frame.timestamp - emitted_at[t] <= transfer_id_timeout}

\* C10 as claimed: once a transfer with transfer-ID T is returned, a frame with
\* transfer-ID <= T and a timestamp within the timeout of the completing frame's
\* returns nothing and reports no error.
C10_AtMostOncePerTransferId_AsClaimed ==
    (pc = "done" /\ CompletedNotBelow # {})
        => (result = <<>> /\ errors = <<>>)

\* C10 amended: once a transfer with transfer-ID T is returned, a frame with
\* transfer-ID <= T and a timestamp within the timeout of the completing frame's
\* returns nothing, and reports no error unless it is an empty frame of a
\* multi-frame transfer.
C10_AtMostOncePerTransferId ==
    (pc = "done" /\ CompletedNotBelow # {})
        => /\ result = <<>>
           /\ ~is_malformed(frame) => errors = <<>>

C10_Witness ==
    /\ pc = "done"
    /\ frame.transfer_id \in CompletedNotBelow
    /\ frame.index = 0 /\ frame.end_of_transfer
    /\ frame.timestamp > emitted_at[frame.transfer_id]
    /\ result = <<>>

\* the transfer under way has all its frames delivered
AllDelivered == wire # NoWire /\ pending = {}

\* the payloads of the frames of the transfer under way, by index
WirePayloads == [i \in 1..Len(wire.frames) |-> wire.frames[i].payload]

\* a well-formed multi-frame transfer: two frames or more, none of them empty,
\* of a payload that is not empty and not above the limit
WellFormedMultiFrame ==
    /\ Len(wire.frames) >= 2
    /\ all(WirePayloads)
    /\ wire.payload # <<>>
    /\ Len(wire.payload) <= max_payload_size_bytes

\* the CRC is all in the last frame: the payload was cut, the CRC appended
CrcInLastFrame ==
    Len(wire.frames[Len(wire.frames)].payload) >= CRC_SIZE_BYTES

\* the transfer that the frames of the transfer under way stand for
ExpectedTransfer ==
    package(wire.stamp, wire.frames[1].priority, wire.frames[1].transfer_id,
            drop_crc(WirePayloads), source_node_id)

\* C2: the frames of a well-formed multi-frame transfer, delivered in any order
\* to an instance that holds nothing of that transfer-ID, make process_frame
\* return the transfer, and the same one in every order.
C2_PermutationInvariance ==
    (AllDelivered /\ WellFormedMultiFrame /\ wire.fresh
        /\ wire.frames[1].transfer_id >= wire.entered)
        => outcome.returned = <<ExpectedTransfer>>

\* C5 as claimed: a payload cut into k >= 1 parts, with its CRC appended to the
\* last one, delivered in order under a fresh transfer-ID, makes process_frame
\* return a transfer whose fragments concatenate to the payload.
C5_CrcRoundTrip_AsClaimed ==
    (AllDelivered /\ outcome.in_order /\ wire.fresh /\ CrcInLastFrame
        /\ Len(wire.payload) <= max_payload_size_bytes)
        => /\ Len(outcome.returned) = 1
           /\ result = outcome.returned
           /\ Concat(outcome.returned[1].fragmented_payload) = wire.payload

\* C5 amended: a payload cut into k >= 2 parts, all but the last one non-empty,
\* with its CRC appended to the last one, delivered in order under a fresh
\* transfer-ID in frames of one timestamp, makes process_frame return a transfer
\* whose fragments concatenate to the payload.
C5_CrcRoundTrip ==
    (AllDelivered /\ outcome.in_order /\ wire.fresh /\ CrcInLastFrame
        /\ WellFormedMultiFrame)
        => /\ Len(outcome.returned) = 1
           /\ result = outcome.returned
           /\ Concat(outcome.returned[1].fragmented_payload) = wire.payload

C5_Witness ==
    /\ AllDelivered
    /\ outcome.in_order
    /\ wire.fresh
    /\ CrcInLastFrame
    /\ WellFormedMultiFrame
    /\ Len(wire.frames) = 3
    /\ Len(outcome.returned) = 1

\* C7: when process_frame aborts a transfer on a frame with transfer-ID T, the
\* current transfer-ID becomes T + 1, and a well-formed transfer with
\* transfer-ID T + 1 delivered next, in order, is returned.
C7_RecoveryAfterAbort ==
    (wire # NoWire /\ wire.aborted # None)
        => /\ wire.entered = wire.aborted + 1
           /\ (pending = {} /\ outcome.in_order /\ WellFormedMultiFrame
                  /\ wire.frames[1].transfer_id = wire.aborted + 1)
                 => outcome.returned = <<ExpectedTransfer>>

\* what a call that restarted on its frame leaves: the frame's timestamp is
\* stored, the frame is the first one of a transfer of its own transfer-ID (the
\* current transfer-ID is already the next one if the call ended that
\* transfer), nothing is left of the fragments and the max_index held before,
\* MULTIFRAME_MISSING_FRAMES is reported first and once if fragments were held,
\* and not at all if none were
StartedAnew ==
    /\ timestamp = frame.timestamp
    /\ transfer_id \in {frame.transfer_id, frame.transfer_id + 1}
    /\ transfer_id = frame.transfer_id + 1 => (payloads = <<>> /\ max_index = None)
    /\ transfer_id = frame.transfer_id
          => /\ payloads = held
             /\ max_index = IF frame.end_of_transfer THEN frame.index ELSE None
    /\ Len(held) = frame.index + 1
    /\ \A i \in 1..Len(held) : held[i] = IF i = frame.index + 1 THEN frame.payload ELSE <<>>
    /\ CountOf(errors, MULTIFRAME_MISSING_FRAMES) = IF prev.payloads # <<>> THEN 1 ELSE 0
    /\ prev.payloads # <<>> => errors[1] = MULTIFRAME_MISSING_FRAMES

\* C11: a frame that is not an empty frame of a multi-frame transfer and whose
\* timestamp is more than the timeout past the stored one restarts the
\* reassembler on its own transfer-ID, lower or not, reporting
\* MULTIFRAME_MISSING_FRAMES exactly if fragments were held; and a well-formed
\* transfer with a transfer-ID not above the current one whose frames come, in
\* order, past the timeout is returned.
C11_TimeoutRestart ==
    /\ (pc = "done" /\ ~is_malformed(frame) /\ ~WithinTimeout) => StartedAnew
    /\ (AllDelivered /\ wire.late /\ outcome.in_order /\ WellFormedMultiFrame
           /\ wire.frames[1].transfer_id <= wire.entered)
          => outcome.returned = <<ExpectedTransfer>>

\* the call restarted on its frame: a newer transfer-ID, or the timeout
RestartedOnFrame == ~is_malformed(frame) /\ is_new_transfer(prev, frame)

\* C12: every error that process_frame reports through a restart reaches the
\* callback while the four fields still hold the transfer being discarded:
\* MULTIFRAME_MISSING_FRAMES finds the instance as the call found it, the
\* four aborts find the frame's transfer-ID, the fragments held at that
\* point and the stored timestamp and max_index; the fields are reset only
\* afterwards.
C12_ErrorBeforeReset ==
    pc = "done" =>
        \A i \in 1..Len(errors) :
            /\ errors[i] = MULTIFRAME_MISSING_FRAMES
                  => (reported[i] = prev /\ prev.payloads # <<>>)
            /\ errors[i] \in AbortErrors
                  => /\ reported[i].transfer_id = frame.transfer_id
                     /\ reported[i].timestamp =
                            IF RestartedOnFrame THEN frame.timestamp ELSE prev.timestamp
                     /\ reported[i].payloads = IF held # <<>> THEN held ELSE prev.payloads
                     /\ reported[i].payloads # <<>>
                     /\ reported[i].max_index =
                            IF errors[i] # MULTIFRAME_EOT_INCONSISTENT /\ frame.end_of_transfer
                            THEN frame.index
                            ELSE IF RestartedOnFrame THEN None ELSE prev.max_index
                     /\ Self = [payloads |-> <<>>, max_index |-> None,
                                timestamp |-> frame.timestamp,
                                transfer_id |-> frame.transfer_id + 1]

C12_Witness ==
    /\ pc = "done"
    /\ errors = <<MULTIFRAME_MISSING_FRAMES, PAYLOAD_SIZE_EXCEEDS_LIMIT>>
    /\ reported[1].payloads # <<>>
    /\ reported[2].payloads = <<frame.payload>>
    /\ payloads = <<>>

\* C13: a transfer that process_frame returns has the priority and the
\* transfer-ID of the frame passed to that call, whatever the priorities of
\* the other frames of the transfer, and the configured source node-ID.
C13_PriorityOfCompletingFrame ==
    (pc = "done" /\ result # <<>>)
        => /\ result[1].priority = frame.priority
           /\ result[1].transfer_id = frame.transfer_id
           /\ result[1].source_node_id = source_node_id

C13_Witness ==
    /\ pc = "done"
    /\ result # <<>>
    /\ Len(wire.frames) >= 2
    /\ frame.priority = "FAST"
    /\ wire.frames[1].priority = "SLOW"
    /\ result[1].priority = "FAST"

\* C14: construct_anonymous_transfer returns a transfer exactly for a frame with
\* index 0 and end_of_transfer set; the transfer has the frame's timestamp,
\* priority and transfer-ID, the frame's payload as its only fragment and no
\* source node-ID; the call changes nothing in the instance and reports no
\* error.
C14_AnonymousTransfer ==
    pc = "anonymous" =>
        /\ result # <<>> <=> (frame.index = 0 /\ frame.end_of_transfer)
        /\ result # <<>> =>
              /\ Len(result) = 1
              /\ result[1].timestamp = frame.timestamp
              /\ result[1].priority = frame.priority
              /\ result[1].transfer_id = frame.transfer_id
              /\ result[1].fragmented_payload = <<frame.payload>>
              /\ result[1].source_node_id = None
        /\ Self = prev
        /\ errors = <<>>

C14_Witness ==
    /\ pc = "anonymous"
    /\ result # <<>>
    /\ frame.transfer_id < transfer_id
    /\ frame.payload = <<>>
    /\ payloads # <<>>

\* C15: a call with an empty payload on a frame that is not (index 0 with
\* end_of_transfer) reports MULTIFRAME_EMPTY_FRAME exactly once and nothing
\* else, returns nothing and leaves payloads, max_index, the timestamp and the
\* transfer-ID as they were, whatever the frame's transfer-ID and timestamp.
C15_EmptyFrameLeavesState ==
    (pc = "done" /\ frame.payload = <<>> /\ ~(frame.index = 0 /\ frame.end_of_transfer))
        => /\ errors = <<MULTIFRAME_EMPTY_FRAME>>
           /\ result = <<>>
           /\ Self = prev

C15_Witness ==
    /\ pc = "done"
    /\ frame.payload = <<>>
    /\ frame.index > 0
    /\ frame.end_of_transfer
    /\ frame.transfer_id > prev.transfer_id
    /\ ~WithinTimeout
    /\ prev.payloads # <<>>
    /\ errors = <<MULTIFRAME_EMPTY_FRAME>>

\* C16 as claimed: a call with a frame whose transfer-ID is above the current
\* one discards the fragments and the max_index held, makes the frame's
\* transfer-ID the current one and the frame's timestamp the stored one, and
\* reports MULTIFRAME_MISSING_FRAMES once if fragments were held and not at all
\* if none were.
C16_NewTransferPreemption_AsClaimed ==
    (pc = "done" /\ frame.transfer_id > prev.transfer_id)
        => /\ transfer_id = frame.transfer_id
           /\ timestamp = frame.timestamp
           /\ CountOf(errors, MULTIFRAME_MISSING_FRAMES) = IF prev.payloads # <<>> THEN 1 ELSE 0

\* C16 amended: a call with a frame whose transfer-ID is above the current one,
\* and that is not an empty frame of a multi-frame transfer, discards the
\* fragments and the max_index held and restarts on the frame's transfer-ID
\* and timestamp before it processes the frame further: after the call the
\* stored timestamp is the frame's, the current transfer-ID is the frame's, or
\* that plus one if the same call completed or aborted the new transfer, and
\* MULTIFRAME_MISSING_FRAMES is reported once if fragments were held and not
\* at all if none were.
C16_NewTransferPreemption ==
    (pc = "done" /\ frame.transfer_id > prev.transfer_id /\ ~is_malformed(frame))
        => StartedAnew

C16_Witness ==
    /\ pc = "done"
    /\ frame.transfer_id > prev.transfer_id
    /\ WithinTimeout
    /\ Len(prev.payloads) > 1
    /\ prev.max_index # None
    /\ errors = <<MULTIFRAME_MISSING_FRAMES>>
    /\ transfer_id = frame.transfer_id
    /\ payloads = <<frame.payload>>
    /\ max_index = None

\* the frame carries the current transfer-ID and end_of_transfer while max_index
\* is set to another index
EotOnAnotherIndex ==
    /\ frame.transfer_id = prev.transfer_id
    /\ frame.end_of_transfer
    /\ prev.max_index # None
    /\ prev.max_index # frame.index

\* the call reported MULTIFRAME_EOT_INCONSISTENT once and nothing else, with
\* the fragments and the max_index as the call found them, returned nothing,
\* stored nothing and restarted on the frame's transfer-ID plus one
AbortedAsInconsistent ==
    /\ errors = <<MULTIFRAME_EOT_INCONSISTENT>>
    /\ reported[1].max_index = prev.max_index
    /\ reported[1].payloads = prev.payloads
    /\ held = <<>>
    /\ result = <<>>
    /\ payloads = <<>>
    /\ max_index = None
    /\ transfer_id = frame.transfer_id + 1

\* C17 as claimed: a call with a frame of the current transfer-ID that has
\* end_of_transfer set while max_index is set to another index reports
\* MULTIFRAME_EOT_INCONSISTENT once, returns nothing, discards the fragments,
\* unsets max_index and moves to the frame's transfer-ID plus one, without
\* storing the payload or overwriting max_index first.
C17_EotInconsistent_AsClaimed ==
    (pc = "done" /\ EotOnAnotherIndex) => AbortedAsInconsistent

\* C17 amended: the same, for a frame that is not an empty frame of a
\* multi-frame transfer and whose timestamp is not more than the timeout past
\* the stored one.
C17_EotInconsistent ==
    (pc = "done" /\ EotOnAnotherIndex /\ ~is_malformed(frame) /\ WithinTimeout)
        => AbortedAsInconsistent

C17_Witness ==
    /\ pc = "done"
    /\ EotOnAnotherIndex
    /\ frame.payload # <<>>
    /\ frame.index < prev.max_index
    /\ Len(prev.payloads) > 1
    /\ AbortedAsInconsistent

\* the frame carries the current transfer-ID and an index above the one that a
\* frame with end_of_transfer of the transfer held has set
IndexAboveEot ==
    /\ frame.transfer_id = prev.transfer_id
    /\ prev.max_index # None
    /\ frame.index > prev.max_index

\* the frame carries the current transfer-ID and end_of_transfer, no frame of
\* the transfer held did, and a fragment is held at an index above the frame's
EotBelowStored ==
    /\ frame.transfer_id = prev.transfer_id
    /\ frame.end_of_transfer
    /\ prev.max_index = None
    /\ \E i \in (frame.index + 2)..Len(prev.payloads) : prev.payloads[i] # <<>>

\* the call reported MULTIFRAME_EOT_MISPLACED once and nothing else, returned
\* nothing, stored nothing and restarted on the frame's transfer-ID plus one
AbortedAsMisplaced ==
    /\ errors = <<MULTIFRAME_EOT_MISPLACED>>
    /\ held = <<>>
    /\ result = <<>>
    /\ payloads = <<>>
    /\ max_index = None
    /\ transfer_id = frame.transfer_id + 1

\* C18 as claimed: when the transfer held has a frame with end_of_transfer at
\* index N and the frame of the call has an index above N, or the other way
\* round, the call reports MULTIFRAME_EOT_MISPLACED once, returns nothing and
\* aborts the transfer, moving to the frame's transfer-ID plus one.
C18_PastEnd_AsClaimed ==
    (pc = "done" /\ (IndexAboveEot \/ EotBelowStored)) => AbortedAsMisplaced

\* C18 amended: the same, when the frame of the call is not empty, its
\* timestamp is not more than the timeout past the stored one and the frame
\* with the higher index has no end_of_transfer of its own.
C18_PastEnd ==
    (pc = "done" /\ ~is_malformed(frame) /\ WithinTimeout
        /\ ((IndexAboveEot /\ ~frame.end_of_transfer) \/ EotBelowStored))
        => AbortedAsMisplaced

\* the higher index stored first, the frame with end_of_transfer later
C18_Witness ==
    /\ pc = "done"
    /\ EotBelowStored
    /\ frame.payload # <<>>
    /\ WithinTimeout
    /\ AbortedAsMisplaced

\* the other order: the frame with end_of_transfer first, the higher index later
C18_WitnessOther ==
    /\ pc = "done"
    /\ IndexAboveEot
    /\ ~frame.end_of_transfer
    /\ frame.payload # <<>>
    /\ WithinTimeout
    /\ AbortedAsMisplaced

\* max_index as it was when the call stored the frame
MaxIndexAtStore ==
    IF frame.end_of_transfer THEN frame.index
    ELSE IF RestartedOnFrame THEN None ELSE prev.max_index

\* the timestamp stored when the call stored the frame
TimestampAtStore == IF RestartedOnFrame THEN frame.timestamp ELSE prev.timestamp

\* the call stored the frame and did not abort on the size limit
StoredWithinLimit == held # <<>> /\ CountOf(errors, PAYLOAD_SIZE_EXCEEDS_LIMIT) = 0

\* the completion test as the claims state it: max_index is set and either it is
\* 0 or every position up to it holds a non-empty fragment
CompletionTestPasses ==
    /\ MaxIndexAtStore # None
    /\ \/ MaxIndexAtStore = 0
       \/ /\ Len(held) = MaxIndexAtStore + 1
          /\ \A i \in 1..(MaxIndexAtStore + 1) : held[i] # <<>>

\* C19: a call that passes the completion test leaves payloads empty, max_index
\* unset, the frame's transfer-ID plus one and the frame's timestamp, whatever
\* the finalizer made of the fragments; it returns what the finalizer returned;
\* if that is a transfer it reports no MULTIFRAME_INTEGRITY_ERROR, otherwise it
\* reports it exactly once.
C19_FinalizeOutcome ==
    (pc = "done" /\ StoredWithinLimit /\ CompletionTestPasses)
        => /\ Self = [payloads |-> <<>>, max_index |-> None,
                      timestamp |-> frame.timestamp,
                      transfer_id |-> frame.transfer_id + 1]
           /\ result = validate_and_finalize_transfer(TimestampAtStore, frame.priority,
                            frame.transfer_id, held, source_node_id)
           /\ CountOf(errors, MULTIFRAME_INTEGRITY_ERROR) = IF result = <<>> THEN 1 ELSE 0
           /\ result # <<>> => errors \in {<<>>, <<MULTIFRAME_MISSING_FRAMES>>}

C19_Witness ==
    /\ pc = "done"
    /\ StoredWithinLimit
    /\ CompletionTestPasses
    /\ Len(held) > 1
    /\ result = <<>>
    /\ errors = <<MULTIFRAME_INTEGRITY_ERROR>>
    /\ payloads = <<>>
    /\ transfer_id = frame.transfer_id + 1

\* a multi-frame transfer that the finalizer accepts
C19_WitnessReturned ==
    /\ pc = "done"
    /\ StoredWithinLimit
    /\ CompletionTestPasses
    /\ Len(held) > 1
    /\ result # <<>>
    /\ errors = <<>>

\* the call went on to the finalization: the state is reset on the next
\* transfer-ID
Finalized ==
    /\ payloads = <<>>
    /\ max_index = None
    /\ transfer_id = frame.transfer_id + 1

\* C20: a call that stores its frame without abort goes on to the finalization
\* exactly if max_index is set and either it is 0 or every position up to it
\* holds a non-empty fragment; otherwise it returns nothing, reports nothing
\* for this step and keeps the fragments and max_index; so no transfer is
\* returned while a position up to max_index is missing.
C20_CompletionTest ==
    (pc = "done" /\ StoredWithinLimit)
        => /\ Finalized <=> CompletionTestPasses
           /\ ~CompletionTestPasses
                 => /\ result = <<>>
                    /\ errors \in {<<>>, <<MULTIFRAME_MISSING_FRAMES>>}
                    /\ payloads = held
                    /\ max_index = MaxIndexAtStore
                    /\ transfer_id = frame.transfer_id
           /\ result # <<>>
                 => \/ MaxIndexAtStore = 0
                    \/ \A i \in 1..(MaxIndexAtStore + 1) : held[i] # <<>>

\* the frame with end_of_transfer is stored while a position below it is missing
C20_Witness ==
    /\ pc = "done"
    /\ StoredWithinLimit
    /\ frame.end_of_transfer
    /\ frame.index > 1
    /\ held[1] # <<>>
    /\ held[2] = <<>>
    /\ ~Finalized
    /\ payloads = held
    /\ max_index = frame.index

\* C21: between calls and after every call, if max_index is set there are at
\* most max_index + 1 fragment slots.
C21_SlotsWithinMaxIndex ==
    max_index # None => Len(payloads) <= max_index + 1

C21_Witness ==
    /\ pc = "done"
    /\ held # <<>>
    /\ ~frame.end_of_transfer
    /\ prev.max_index # None
    /\ frame.index = prev.max_index - 1
    /\ max_index = prev.max_index
    /\ Len(payloads) = max_index + 1

\* C22: after a call that returns a transfer or reports one of the four aborts,
\* no fragment is held, max_index is unset and the current transfer-ID is the
\* frame's plus one.
C22_TerminalReturnsToIdle ==
    (pc = "done" /\ (result # <<>> \/ \E i \in 1..Len(errors) : errors[i] \in AbortErrors))
        => /\ payloads = <<>>
           /\ max_index = None
           /\ transfer_id = frame.transfer_id + 1

C22_Witness ==
    /\ pc = "done"
    /\ errors = <<PAYLOAD_SIZE_EXCEEDS_LIMIT>>
    /\ Len(held) > 1
    /\ prev.max_index # None
    /\ payloads = <<>>
    /\ max_index = None
    /\ transfer_id = frame.transfer_id + 1

\* C23: between calls and after every call the fragments held are at most
\* max_payload_size_bytes + CRC_SIZE bytes long in all, and a call that stores
\* a frame making them longer reports PAYLOAD_SIZE_EXCEEDS_LIMIT and leaves no
\* fragment held.
C23_BoundedRetainedBytes ==
    /\ SumLen(payloads) <= max_payload_size_bytes + CRC_SIZE_BYTES
    /\ (pc = "done" /\ SumLen(held) > max_payload_size_bytes + CRC_SIZE_BYTES)
          => /\ CountOf(errors, PAYLOAD_SIZE_EXCEEDS_LIMIT) = 1
             /\ payloads = <<>>

C23_Witness ==
    /\ pc = "done"
    /\ SumLen(prev.payloads) = max_payload_size_bytes + CRC_SIZE_BYTES
    /\ frame.transfer_id = prev.transfer_id
    /\ SumLen(held) > max_payload_size_bytes + CRC_SIZE_BYTES
    /\ payloads = <<>>

\* a frame of the current transfer-ID found fragments held and came more than
\* the timeout after the stored timestamp
LateFrameOfHeldTransfer ==
    /\ pc = "done"
    /\ prev.payloads # <<>>
    /\ frame.transfer_id = prev.transfer_id
    /\ ~WithinTimeout

\* C24: a frame of the current transfer-ID that is not an empty frame of a
\* multi-frame transfer, finds fragments held and comes more than the timeout
\* after the stored timestamp discards them with MULTIFRAME_MISSING_FRAMES
\* reported first, stores its own timestamp, and leaves only its own fragment
\* toward the completion of that transfer-ID; a transfer it returns is made of
\* its payload and its timestamp alone.
C24_LateFrameRestarts ==
    (LateFrameOfHeldTransfer /\ ~is_malformed(frame))
        => /\ StartedAnew
           /\ errors # <<>> /\ errors[1] = MULTIFRAME_MISSING_FRAMES
           /\ reported[1].payloads = prev.payloads
           /\ result # <<>>
                 => /\ result[1].fragmented_payload = <<frame.payload>>
                    /\ result[1].timestamp = frame.timestamp
                    /\ result[1].transfer_id = prev.transfer_id

\* C24 as stated, for every late frame of the held transfer-ID
C24_LateFrameRestarts_AsClaimed ==
    LateFrameOfHeldTransfer
        => /\ StartedAnew
           /\ errors # <<>> /\ errors[1] = MULTIFRAME_MISSING_FRAMES

C24_Witness ==
    /\ LateFrameOfHeldTransfer /\ ~is_malformed(frame)
    /\ errors = <<MULTIFRAME_MISSING_FRAMES>>
    /\ transfer_id = prev.transfer_id
    /\ timestamp = frame.timestamp /\ timestamp # prev.timestamp
    /\ \E i \in 1..Len(prev.payloads) :
          /\ i # frame.index + 1 /\ prev.payloads[i] # <<>>
          /\ i <= Len(payloads) /\ payloads[i] = <<>>

C24_WitnessReturned ==
    /\ LateFrameOfHeldTransfer
    /\ result # <<>> /\ result[1].timestamp # prev.timestamp

\* C25: a call reports at most two errors; two errors are
\* MULTIFRAME_MISSING_FRAMES followed by MULTIFRAME_EOT_MISPLACED,
\* PAYLOAD_SIZE_EXCEEDS_LIMIT or MULTIFRAME_INTEGRITY_ERROR; a call that
\* returns a transfer reports nothing but MULTIFRAME_MISSING_FRAMES; and
\* MULTIFRAME_EMPTY_FRAME and MULTIFRAME_EOT_INCONSISTENT are reported alone.
C25_ErrorMultiplicity ==
    pc = "done" =>
        /\ Len(errors) <= 2
        /\ Len(errors) = 2
              => /\ errors[1] = MULTIFRAME_MISSING_FRAMES
                 /\ errors[2] \in {MULTIFRAME_EOT_MISPLACED, PAYLOAD_SIZE_EXCEEDS_LIMIT,
                                   MULTIFRAME_INTEGRITY_ERROR}
        /\ result # <<>> => \A i \in 1..Len(errors) : errors[i] = MULTIFRAME_MISSING_FRAMES
        /\ (\E i \in 1..Len(errors) :
                errors[i] \in {MULTIFRAME_EMPTY_FRAME, MULTIFRAME_EOT_INCONSISTENT})
              => Len(errors) = 1

C25_Witness ==
    /\ pc = "done" /\ Len(errors) = 2
    /\ errors[1] = MULTIFRAME_MISSING_FRAMES /\ errors[2] = PAYLOAD_SIZE_EXCEEDS_LIMIT

C25_WitnessReturned ==
    pc = "done" /\ result # <<>> /\ errors = <<MULTIFRAME_MISSING_FRAMES>>

C25_WitnessInconsistent ==
    pc = "done" /\ errors = <<MULTIFRAME_EOT_INCONSISTENT>> /\ prev.payloads # <<>>

C25_WitnessEmptyFrame ==
    /\ pc = "done" /\ errors = <<MULTIFRAME_EMPTY_FRAME>> /\ prev.payloads # <<>>
    /\ frame.transfer_id > prev.transfer_id

\* in fact the restart leaves no max_index and no fragments, so the only error
\* that follows MULTIFRAME_MISSING_FRAMES in a call is the size limit
SecondErrorIsSizeLimit ==
    (pc = "done" /\ Len(errors) = 2) => errors[2] = PAYLOAD_SIZE_EXCEEDS_LIMIT

\* the bytes of a fragment list without the last CRC_SIZE of them
WithoutCrc(list) == SubSeq(Concat(list), 1, SumLen(list) - CRC_SIZE_BYTES)

\* the last CRC_SIZE bytes of data are the CRC of the bytes before them
CrcAtTail(data) ==
    /\ Len(data) >= CRC_SIZE_BYTES
    /\ SubSeq(data, Len(data) - CRC_SIZE_BYTES + 1, Len(data))
          = value_as_bytes(SubSeq(data, 1, Len(data) - CRC_SIZE_BYTES))

\* the residue of a fragment list matches exactly if its bytes end with their CRC
ResidueIsCrcAtTail ==
    check_residue(argument) <=> CrcAtTail(Concat(argument))

\* C26: _validate_and_finalize_transfer, given one fragment, returns a transfer
\* made of that fragment as it is; given two or more, it returns a transfer
\* exactly if they are more than CRC_SIZE bytes long in all and their CRC
\* residue matches, and the bytes of its fragmented_payload are those of the
\* input without the last CRC_SIZE; otherwise it returns nothing.  The other
\* fields of the transfer are the arguments of the call.
C26_Finalizer ==
    pc = "finalized" =>
        /\ Len(returned) <= 1
        /\ Len(argument) = 1
              => /\ returned # <<>>
                 /\ returned[1].fragmented_payload = argument
        /\ Len(argument) >= 2
              => /\ returned # <<>>
                       <=> (SumLen(argument) > CRC_SIZE_BYTES /\ check_residue(argument))
                 /\ returned # <<>>
                       => Concat(returned[1].fragmented_payload) = WithoutCrc(argument)
        /\ returned # <<>>
              => /\ returned[1].timestamp = frame.timestamp
                 /\ returned[1].priority = frame.priority
                 /\ returned[1].transfer_id = frame.transfer_id
                 /\ returned[1].source_node_id = source_node_id

C26_Witness ==
    /\ pc = "finalized" /\ Len(argument) >= 3 /\ returned # <<>>
    /\ \E i \in 1..Len(argument) : argument[i] = <<>>
    /\ Concat(returned[1].fragmented_payload) = PayloadB

C26_WitnessSingle ==
    pc = "finalized" /\ argument = << <<>> >> /\ returned # <<>>

C26_WitnessTooShort ==
    /\ pc = "finalized" /\ Len(argument) >= 2 /\ all(argument)
    /\ check_residue(argument) /\ returned = <<>>

C26_WitnessCrc ==
    /\ pc = "finalized" /\ Len(argument) >= 2 /\ SumLen(argument) > CRC_SIZE_BYTES
    /\ ~check_residue(argument) /\ returned = <<>>

\* the bytes of the fragments of list after the one at position j
After(list, j) == SumLen(SubSeq(list, j + 1, Len(list)))

\* what _drop_crc returns is made of the fragments that lead its input, the last
\* of them possibly shortened; a fragment is left out only if fewer than
\* CRC_SIZE bytes follow it, and an empty fragment is left as the last one only
\* if exactly CRC_SIZE bytes follow it
PrefixOfArgument ==
    LET n == Len(argument)
        k == Len(returned)
    IN /\ k <= n
       /\ \A i \in 1..(k - 1) : returned[i] = argument[i]
       /\ k > 0 => /\ Len(returned[k]) <= Len(argument[k])
                   /\ returned[k] = SubSeq(argument[k], 1, Len(returned[k]))
       /\ k < n => After(argument, k + 1) < CRC_SIZE_BYTES
       /\ (k > 0 /\ returned[k] = <<>>) => After(argument, k) = CRC_SIZE_BYTES

\* C27: _drop_crc returns, for every list of fragments, the bytes of the list
\* without the last CRC_SIZE of them, and no byte if there are no more than
\* CRC_SIZE; it returns the empty list if there are fewer than CRC_SIZE, and
\* the empty fragments that come before the first non-empty one if there are
\* exactly CRC_SIZE; what it returns leads the input, in its order, the last
\* fragment possibly shortened, and the empty fragments met while bytes were
\* still to be removed are left out.
C27_Trimmer ==
    pc = "trimmed" =>
        /\ Concat(returned) = IF SumLen(argument) > CRC_SIZE_BYTES
                               THEN WithoutCrc(argument) ELSE <<>>
        /\ SumLen(argument) < CRC_SIZE_BYTES => returned = <<>>
        /\ SumLen(argument) = CRC_SIZE_BYTES
              => /\ \A i \in 1..Len(returned) : returned[i] = <<>>
                 /\ argument[Len(returned) + 1] # <<>>
        /\ PrefixOfArgument

\* C27 as stated: the empty list whenever there are no more than CRC_SIZE bytes
C27_Trimmer_AsClaimed ==
    pc = "trimmed" =>
        /\ Concat(returned) = IF SumLen(argument) > CRC_SIZE_BYTES
                               THEN WithoutCrc(argument) ELSE <<>>
        /\ SumLen(argument) <= CRC_SIZE_BYTES => returned = <<>>

C27_Witness ==
    /\ pc = "trimmed" /\ Len(argument) >= 3 /\ argument[Len(argument)] = <<>>
    /\ returned # <<>>
    /\ returned[Len(returned)] # <<>>
    /\ Len(returned[Len(returned)]) < Len(argument[Len(returned)])

C27_WitnessLeadingEmpty ==
    /\ pc = "trimmed" /\ SumLen(argument) = CRC_SIZE_BYTES /\ returned = << <<>> >>

C27_WitnessEmptyList ==
    pc = "trimmed" /\ argument = <<>> /\ returned = <<>>

====
